---- MODULE Spec2Model ----
(***************************************************************************)
(* Model of python/server.py: a line-delimited JSON dispatcher that turns  *)
(* requests into kubectl / helm subprocess invocations.                    *)
(*                                                                         *)
(* One behaviour is one run of main(): lines are read from stdin one at a  *)
(* time, each non-blank line is decoded, routed and answered.  A blocking  *)
(* subprocess call is split in two: the step that spawns it and the step   *)
(* that takes its exit status and captured stdout (chosen by the           *)
(* environment).                                                           *)
(***************************************************************************)
EXTENDS Integers, Sequences, FiniteSets, TLC

\* Number of lines the input stream may hold.
MaxLines == 2

VARIABLES
    pc,         \* position of main(): await / loads / handle / a blocking call / crashed / done
    nread,      \* lines taken from sys.stdin so far
    nonblank,   \* how many of them were non-blank after strip()
    cur,        \* the stripped text of the line being processed
    request,    \* the decoded request of the line being processed
    handler,    \* which handler handle_request entered for this line
    calls,      \* subprocess invocations made for this line, in order
    files,      \* working directory: file name -> content
    created,    \* names of the files this line's handler has created (opened for writing)
    out,        \* response objects printed to sys.stdout, in order
    served,     \* for each printed response, the ordinal of the non-blank line it answers
    exc         \* type of the exception the except clause caught for this line, or "none"

vars == <<pc, nread, nonblank, cur, request, handler, calls, files, created, out, served, exc>>

(***************************************************************************)
(* Python values                                                           *)
(***************************************************************************)

\* dict membership
Has(d, k) == k \in DOMAIN d

\* `if d.get(k):` for a str or a mapping: present and non-empty
Truthy(d, k) == Has(d, k) /\ Len(d[k]) > 0

\* d.get(k, default)
GetOr(d, k, default) == IF Has(d, k) THEN d[k] ELSE default

\* a str given as its characters -> the str
RECURSIVE Str(_)
Str(cs) == IF cs = <<>> THEN "" ELSE Head(cs) \o Str(Tail(cs))

\* s.rsplit("/", 1)[0] on the characters of s: cut at the last "/"
RSplit0(cs) ==
    IF \A i \in 1..Len(cs) : cs[i] # "/" THEN cs
    ELSE LET k == CHOOSE i \in 1..Len(cs) :
                      cs[i] = "/" /\ \A j \in (i + 1)..Len(cs) : cs[j] # "/"
         IN  SubSeq(cs, 1, k - 1)

\* s.split("/")[0] on the characters of s
RECURSIVE Split0(_)
Split0(cs) ==
    IF cs = <<>> \/ Head(cs) = "/" THEN <<>>
    ELSE <<Head(cs)>> \o Split0(Tail(cs))

\* repr() of a list of str, as it appears inside str(CalledProcessError)
RECURSIVE ReprItems(_)
ReprItems(xs) ==
    IF xs = <<>> THEN ""
    ELSE "'" \o Head(xs) \o "'" \o (IF Len(xs) > 1 THEN ", " ELSE "") \o ReprItems(Tail(xs))

ReprList(xs) == "[" \o ReprItems(xs) \o "]"

\* str(subprocess.CalledProcessError(rc, cmd))
CalledProcessErrorStr(cmd, rc) ==
    "Command '" \o ReprList(cmd) \o "' returned non-zero exit status " \o ToString(rc) \o "."

\* str(KeyError(k))
KeyErrorStr(k) == "'" \o k \o "'"

\* json.dumps of a mapping of str -> int, given as its items in insertion order
RECURSIVE DumpItems(_)
DumpItems(items) ==
    IF items = <<>> THEN ""
    ELSE "\"" \o Head(items)[1] \o "\": " \o ToString(Head(items)[2])
         \o (IF Len(items) > 1 THEN ", " ELSE "") \o DumpItems(Tail(items))

JsonDumps(items) == "{" \o DumpItems(items) \o "}"

\* d restricted to the keys in S
Restrict(d, S) == [k \in S |-> d[k]]

(***************************************************************************)
(* Inputs                                                                  *)
(***************************************************************************)

GetParams ==
    { Restrict(full, S) :
        full \in [resourceType : {"pods", "nodes"}, name : {"", "web"},
                  namespace : {"", "prod"}, output : {"yaml"}],
        S \in SUBSET {"resourceType", "name", "namespace", "output"} }

ApplyParams ==
    { Restrict(full, S) :
        full \in [manifest : {"", "kind: Pod"}, filename : {"", "pod.yaml"}],
        S \in SUBSET {"manifest", "filename"} }

Charts == { <<"c">>, <<"r", "/", "c">>, <<"a", "/", "b", "/", "c">> }

ValuesMaps == { <<>>, << <<"a", 1>> >>, << <<"b", 2>>, <<"a", 1>> >> }

HelmParams ==
    { Restrict(full, S) :
        full \in [name : {"rel"}, chart : Charts, namespace : {"ns"},
                  repo : {"", "https://example.com"}, values : ValuesMaps],
        S \in SUBSET {"name", "chart", "namespace", "repo", "values"} }

RoutedMethods == {"kubectl_get", "kubectl_apply", "install_helm_chart", "cleanup"}

OtherMethods == {"Kubectl_Get", "CLEANUP", "apply", "helm_install", ""}

Requests ==
    { [method |-> "kubectl_get", params |-> p] : p \in GetParams }
    \cup { [method |-> "kubectl_apply", params |-> p] : p \in ApplyParams }
    \cup { [method |-> "install_helm_chart", params |-> p] : p \in HelmParams }
    \cup { [method |-> m, params |-> [resourceType |-> "pods"]] : m \in OtherMethods \cup {"cleanup"} }
    \cup { [method |-> m] : m \in RoutedMethods \cup OtherMethods }
    \cup { [params |-> [resourceType |-> "pods"]] }

\* the text of a line once strip() has removed the surrounding whitespace
Texts ==
    { [kind |-> "empty"] }
    \cup { [kind |-> "garbage", text |-> t] : t \in {"{bad", "kubectl_get"} }
    \cup { [kind |-> "json", value |-> [type |-> "dict", obj |-> r]] : r \in Requests }
    \cup { [kind |-> "json", value |-> [type |-> "list"]] }

\* a line of sys.stdin: text with or without surrounding whitespace
Lines == [ws : BOOLEAN, text : Texts]

\* exit statuses and captured standard outputs a subprocess may produce
ExitCodes == {0, 1}
Stdouts == {"", "ok\n"}


(***************************************************************************)
(* State helpers                                                           *)
(***************************************************************************)

NoText == [kind |-> "empty"]
NoRequest == [type |-> "none"]
NoFiles == [f \in {} |-> ""]

\* a subprocess invocation: rc = -1 while the child is running
Running == -1
Invocation(cmd, input, check) ==
    [cmd |-> cmd, input |-> input, check |-> check, rc |-> Running, stdout |-> ""]

\* the invocation list after one more child has been spawned
Invoke(cs, cmd, input, check) == Append(cs, Invocation(cmd, input, check))

\* the invocation list after the running child exited with rc and stdout so
Finished(rc, so) == [calls EXCEPT ![Len(calls)].rc = rc, ![Len(calls)].stdout = so]

\* open(name, "w") + write + close
PutFile(fs, name, content) ==
    [f \in DOMAIN fs \cup {name} |-> IF f = name THEN content ELSE fs[f]]

\* os.remove(name)
RemoveFile(fs, name) == [f \in DOMAIN fs \ {name} |-> fs[f]]

\* the success envelope built by every handler
Content(text) == [content |-> <<[type |-> "text", text |-> text]>>]

\* the envelope built by the except clause of main
ErrorResponse(msg) == [error |-> msg]

\* print(json.dumps(response)); sys.stdout.flush(); back to the for loop
WriteResponse(resp, e) ==
    /\ out' = Append(out, resp)
    /\ served' = Append(served, nonblank)
    /\ exc' = e
    /\ pc' = "await"

\* a handler that returns result.strip() instead of result
ReturnStripped(text) ==
    WriteResponse(Content(IF text = "ok\n" THEN "ok" ELSE text), "none")

\* the handler returned normally (main, lines 111-113)
Return(text) == WriteResponse(Content(text), "none")

\* the handler raised; main catches it (lines 114-117)
Raise(type, msg) == WriteResponse(ErrorResponse(msg), type)

(***************************************************************************)
(* main: the read loop                                                     *)
(***************************************************************************)

\* line.strip()
Strip(l) == l.text

Init ==
    /\ pc = "await"
    /\ nread = 0
    /\ nonblank = 0
    /\ cur = NoText
    /\ request = NoRequest
    /\ handler = "none"
    /\ calls = <<>>
    /\ files = NoFiles
    /\ created = {}
    /\ out = <<>>
    /\ served = <<>>
    /\ exc = "none"

\* for line in sys.stdin: line = line.strip(); if not line: continue
ReadLine ==
    /\ pc = "await"
    /\ nread < MaxLines
    /\ \E l \in Lines :
        /\ nread' = nread + 1
        /\ IF Strip(l).kind = "empty"
             THEN UNCHANGED <<pc, nonblank, cur, request, handler, calls, created, exc>>
             ELSE /\ pc' = "loads"
                  /\ nonblank' = nonblank + 1
                  /\ cur' = Strip(l)
                  /\ request' = NoRequest
                  /\ handler' = "none"
                  /\ calls' = <<>>
                  /\ created' = {}
                  /\ exc' = "none"
    /\ UNCHANGED <<files, out, served>>

\* sys.stdin is exhausted: the for loop ends and main returns
EndOfInput ==
    /\ pc = "await"
    /\ pc' = "done"
    /\ UNCHANGED <<nread, nonblank, cur, request, handler, calls, files, created, out, served, exc>>

\* request = json.loads(line), outside the try block: a JSONDecodeError is
\* not caught, main is left and the process ends with a traceback
Loads ==
    /\ pc = "loads"
    /\ IF cur.kind = "json"
         THEN /\ request' = cur.value
              /\ pc' = "handle"
              /\ exc' = exc
         ELSE /\ request' = request
              /\ pc' = "crashed"
              /\ exc' = "JSONDecodeError"
    /\ UNCHANGED <<nread, nonblank, cur, handler, calls, files, created, out, served>>

(***************************************************************************)
(* handle_request                                                          *)
(***************************************************************************)

\* a routing table with an alias: "apply" also reaches kubectl_apply
RouteWithAlias(req) ==
    IF Has(req, "method") /\ req.method \in {"kubectl_get", "kubectl_apply", "install_helm_chart", "cleanup"}
        THEN req.method
        ELSE IF Has(req, "method") /\ req.method = "apply" THEN "kubectl_apply"
        ELSE "unknown"

\* request.get("method") compared with the four literals
Route(req) ==
    IF Has(req, "method") /\ req.method \in {"kubectl_get", "kubectl_apply", "install_helm_chart", "cleanup"}
        THEN req.method
        ELSE "unknown"

\* f"{method}"
MethodStr(req) == IF Has(req, "method") THEN req.method ELSE "None"

\* request.get("params", {})
Params(req) == GetOr(req, "params", [k \in {} |-> ""])

IsDict == pc = "handle" /\ request.type = "dict"

\* request is not a mapping: request.get raises AttributeError
HandleNonDict ==
    /\ pc = "handle"
    /\ request.type # "dict"
    /\ Raise("AttributeError", "'" \o request.type \o "' object has no attribute 'get'")
    /\ UNCHANGED <<nread, nonblank, cur, request, handler, calls, files, created>>

\* raise ValueError(f"Unknown method: {method}")
UnknownMethod ==
    /\ IsDict
    /\ Route(request.obj) = "unknown"
    /\ Raise("ValueError", "Unknown method: " \o MethodStr(request.obj))
    /\ UNCHANGED <<nread, nonblank, cur, request, handler, calls, files, created>>

\* manager.cleanup() is a no-op; the text is json.dumps({"success": True})
Cleanup ==
    /\ IsDict
    /\ Route(request.obj) = "cleanup"
    /\ handler' = "cleanup"
    /\ Return("{\"success\": true}")
    /\ UNCHANGED <<nread, nonblank, cur, request, calls, files, created>>

(***************************************************************************)
(* kubectl_get                                                             *)
(***************************************************************************)

\* the argument list without the special case for nodes
GetArgsNamespaced(params) ==
    LET resource  == params.resourceType
        namespace == GetOr(params, "namespace", "default")
        output    == GetOr(params, "output", "json")
    IN  <<"get", resource>>
        \o (IF Truthy(params, "name") THEN <<params.name>> ELSE <<>>)
        \o (IF Len(namespace) > 0 THEN <<"-n", namespace>> ELSE <<>>)
        \o <<"-o", output>>

\* lines 25-35: get <resourceType> [<name>] [-n <namespace>] -o <output>
GetArgs(params) ==
    LET resource  == params.resourceType
        namespace == GetOr(params, "namespace", "default")
        output    == GetOr(params, "output", "json")
    IN  <<"get", resource>>
        \o (IF Truthy(params, "name") THEN <<params.name>> ELSE <<>>)
        \o (IF Len(namespace) > 0 /\ resource # "nodes" THEN <<"-n", namespace>> ELSE <<>>)
        \o <<"-o", output>>

\* kubectl_get up to the blocking manager.kubectl(args)
KubectlGet ==
    /\ IsDict
    /\ Route(request.obj) = "kubectl_get"
    /\ handler' = "kubectl_get"
    /\ LET params == Params(request.obj) IN
        IF ~Has(params, "resourceType")
            THEN /\ Raise("KeyError", KeyErrorStr("resourceType"))
                 /\ UNCHANGED calls
            ELSE /\ calls' = Invoke(calls, <<"kubectl">> \o GetArgs(params), <<>>, TRUE)
                 /\ pc' = "kubectl_get"
                 /\ UNCHANGED <<out, served, exc>>
    /\ UNCHANGED <<nread, nonblank, cur, request, files, created>>

\* subprocess.check_output returns or raises CalledProcessError
KubectlGetReturn ==
    /\ pc = "kubectl_get"
    /\ \E rc \in ExitCodes, so \in Stdouts :
        /\ calls' = Finished(rc, so)
        /\ IF rc # 0
             THEN Raise("CalledProcessError", CalledProcessErrorStr(calls[Len(calls)].cmd, rc))
             ELSE Return(so)
    /\ UNCHANGED <<nread, nonblank, cur, request, handler, files, created>>

(***************************************************************************)
(* kubectl_apply                                                           *)
(***************************************************************************)

\* a validation that tests the keys for presence instead of truth
ApplyValidIfPresent(params) == Has(params, "manifest") \/ Has(params, "filename")

\* line 44: `not manifest and not filename` is false
ApplyValid(params) == Truthy(params, "manifest") \/ Truthy(params, "filename")

\* a kubectl_apply in which filename takes precedence over manifest
ApplyCallFilenameFirst(params) ==
    IF Truthy(params, "filename")
        THEN Invocation(<<"kubectl", "apply", "-f", params.filename>>, <<>>, TRUE)
        ELSE Invocation(<<"kubectl", "apply", "-f", "-">>, <<GetOr(params, "manifest", "None")>>, FALSE)

\* lines 47-51: the child kubectl_apply spawns; subprocess.run has no
\* check=True, manager.kubectl uses check_output
ApplyCall(params) ==
    IF Truthy(params, "manifest")
        THEN Invocation(<<"kubectl", "apply", "-f", "-">>, <<params.manifest>>, FALSE)
        ELSE Invocation(<<"kubectl", "apply", "-f", GetOr(params, "filename", "None")>>, <<>>, TRUE)

\* kubectl_apply up to the blocking subprocess call
KubectlApply ==
    /\ IsDict
    /\ Route(request.obj) = "kubectl_apply"
    /\ handler' = "kubectl_apply"
    /\ LET params == Params(request.obj) IN
        IF ~ApplyValid(params)
            THEN /\ Raise("ValueError", "Either manifest or filename required")
                 /\ UNCHANGED calls
            ELSE /\ calls' = Append(calls, ApplyCall(params))
                 /\ pc' = "kubectl_apply"
                 /\ UNCHANGED <<out, served, exc>>
    /\ UNCHANGED <<nread, nonblank, cur, request, files, created>>

\* the child exits: proc.stdout is returned whatever the exit status when the
\* call was subprocess.run; check_output raises on a non-zero status
KubectlApplyReturn ==
    /\ pc = "kubectl_apply"
    /\ \E rc \in ExitCodes, so \in Stdouts :
        /\ calls' = Finished(rc, so)
        /\ IF rc # 0 /\ calls[Len(calls)].check
             THEN Raise("CalledProcessError", CalledProcessErrorStr(calls[Len(calls)].cmd, rc))
             ELSE Return(so)
    /\ UNCHANGED <<nread, nonblank, cur, request, handler, files, created>>

(***************************************************************************)
(* install_helm_chart                                                      *)
(***************************************************************************)

\* the first of params["name"], params["chart"], params["namespace"] that
\* raises KeyError, or "" when all three are present
MissingKey(params) ==
    IF ~Has(params, "name") THEN "name"
    ELSE IF ~Has(params, "chart") THEN "chart"
    ELSE IF ~Has(params, "namespace") THEN "namespace"
    ELSE ""

\* repo_name = chart.split("/")[0]
RepoName(chart) == Str(Split0(chart))

\* values_file = f"{name}-values.yaml"
ValuesFile(params) == params.name \o "-values.yaml"

\* line 68, and line 75 when a values file is passed
InstallArgs(params, withValues) ==
    <<"install", params.name, Str(params.chart), "--namespace", params.namespace, "--create-namespace">>
    \o (IF withValues THEN <<"-f", ValuesFile(params)>> ELSE <<>>)

\* lines 68-81 after the repo block, from the invocation list cs: with a
\* values mapping go on to write the file, otherwise spawn the install
InstallStage(params, cs) ==
    IF Truthy(params, "values")
        THEN /\ calls' = cs
             /\ pc' = "write_values"
        ELSE /\ calls' = Invoke(cs, <<"helm">> \o InstallArgs(params, FALSE), <<>>, TRUE)
             /\ pc' = "helm_install"

\* install_helm_chart up to its first blocking call
InstallHelmChart ==
    /\ IsDict
    /\ Route(request.obj) = "install_helm_chart"
    /\ handler' = "install_helm_chart"
    /\ LET params == Params(request.obj) IN
        IF MissingKey(params) # ""
            THEN /\ Raise("KeyError", KeyErrorStr(MissingKey(params)))
                 /\ UNCHANGED calls
            ELSE /\ IF Truthy(params, "repo")
                      THEN /\ calls' = Invoke(calls, <<"helm", "repo", "add", RepoName(params.chart), params.repo>>, <<>>, TRUE)
                           /\ pc' = "helm_repo_add"
                      ELSE InstallStage(params, calls)
                 /\ UNCHANGED <<out, served, exc>>
    /\ UNCHANGED <<nread, nonblank, cur, request, files, created>>

\* manager.helm(["repo", "add", ...]) returns or raises; then repo update
HelmRepoAddReturn ==
    /\ pc = "helm_repo_add"
    /\ \E rc \in ExitCodes, so \in Stdouts :
        IF rc # 0
            THEN /\ calls' = Finished(rc, so)
                 /\ Raise("CalledProcessError", CalledProcessErrorStr(calls[Len(calls)].cmd, rc))
            ELSE /\ calls' = Invoke(Finished(rc, so), <<"helm", "repo", "update">>, <<>>, TRUE)
                 /\ pc' = "helm_repo_update"
                 /\ UNCHANGED <<out, served, exc>>
    /\ UNCHANGED <<nread, nonblank, cur, request, handler, files, created>>

\* manager.helm(["repo", "update"]) returns or raises; then the install
HelmRepoUpdateReturn ==
    /\ pc = "helm_repo_update"
    /\ \E rc \in ExitCodes, so \in Stdouts :
        IF rc # 0
            THEN /\ calls' = Finished(rc, so)
                 /\ Raise("CalledProcessError", CalledProcessErrorStr(calls[Len(calls)].cmd, rc))
            ELSE /\ InstallStage(Params(request.obj), Finished(rc, so))
                 /\ UNCHANGED <<out, served, exc>>
    /\ UNCHANGED <<nread, nonblank, cur, request, handler, files, created>>

\* what open(values_file, "w") and f.write(json.dumps(values)) can do
WriteOutcomes == {"written", "open_fails", "write_fails"}

\* lines 72-77: the with block that writes the values file, then the spawn
\* of the install inside try.  open() creates (truncates) the file; an
\* OSError from open leaves no file, one from write/close leaves the
\* truncated file, and neither is inside the try/finally.
WriteValuesFile ==
    /\ pc = "write_values"
    /\ LET params == Params(request.obj) IN
       \E outcome \in WriteOutcomes :
        CASE outcome = "written" ->
                /\ files' = PutFile(files, ValuesFile(params), JsonDumps(params.values))
                /\ created' = created \cup {ValuesFile(params)}
                /\ calls' = Invoke(calls, <<"helm">> \o InstallArgs(params, TRUE), <<>>, TRUE)
                /\ pc' = "helm_install_values"
                /\ UNCHANGED <<out, served, exc>>
          [] outcome = "open_fails" ->
                /\ Raise("OSError", "[Errno 13] Permission denied: '" \o ValuesFile(params) \o "'")
                /\ UNCHANGED <<files, created, calls>>
          [] outcome = "write_fails" ->
                /\ files' = PutFile(files, ValuesFile(params), "")
                /\ created' = created \cup {ValuesFile(params)}
                /\ Raise("OSError", "[Errno 27] File too large")
                /\ UNCHANGED calls
    /\ UNCHANGED <<nread, nonblank, cur, request, handler>>

\* lines 76-79: the install returns or raises, finally: os.remove(values_file)
HelmInstallValuesReturn ==
    /\ pc = "helm_install_values"
    /\ files' = RemoveFile(files, ValuesFile(Params(request.obj)))
    /\ created' = created
    /\ \E rc \in ExitCodes, so \in Stdouts :
        /\ calls' = Finished(rc, so)
        /\ IF rc # 0
             THEN Raise("CalledProcessError", CalledProcessErrorStr(calls[Len(calls)].cmd, rc))
             ELSE Return(so)
    /\ UNCHANGED <<nread, nonblank, cur, request, handler>>

\* line 81: the install without a values file returns or raises
HelmInstallReturn ==
    /\ pc = "helm_install"
    /\ \E rc \in ExitCodes, so \in Stdouts :
        /\ calls' = Finished(rc, so)
        /\ IF rc # 0
             THEN Raise("CalledProcessError", CalledProcessErrorStr(calls[Len(calls)].cmd, rc))
             ELSE Return(so)
    /\ UNCHANGED <<nread, nonblank, cur, request, handler, files, created>>

(***************************************************************************)
(* Specification                                                           *)
(***************************************************************************)

Next ==
    \/ ReadLine
    \/ EndOfInput
    \/ Loads
    \/ HandleNonDict
    \/ UnknownMethod
    \/ Cleanup
    \/ KubectlGet
    \/ KubectlGetReturn
    \/ KubectlApply
    \/ KubectlApplyReturn
    \/ InstallHelmChart
    \/ HelmRepoAddReturn
    \/ HelmRepoUpdateReturn
    \/ WriteValuesFile
    \/ HelmInstallValuesReturn
    \/ HelmInstallReturn

Spec == Init /\ [][Next]_vars

(***************************************************************************)
(* Vocabulary of the properties                                            *)
(***************************************************************************)

\* the response printed last
Last == out[Len(out)]

IsContent(r) == DOMAIN r = {"content"}
IsError(r) == DOMAIN r = {"error"}

\* main is between two lines (or has left the loop normally) and the last
\* non-blank line it read has been answered
Answered ==
    /\ pc \in {"await", "done"}
    /\ nonblank > 0
    /\ Len(out) > 0
    /\ served[Len(out)] = nonblank

\* the line being processed was decoded to a mapping and handle_request has
\* started on it
Started == request.type = "dict" /\ pc # "handle"

MethodIs(m) == Has(request.obj, "method") /\ request.obj.method = m

\* a subprocess is running
Blocked == calls # <<>> /\ calls[Len(calls)].rc = Running

\* the sequence s contains x
Contains(s, x) == \E i \in 1..Len(s) : s[i] = x

\* a required parameter (or the manifest/filename group) is missing
InvalidParams ==
    LET p == Params(request.obj) IN
    \/ MethodIs("kubectl_apply") /\ ~Truthy(p, "manifest") /\ ~Truthy(p, "filename")
    \/ MethodIs("kubectl_get") /\ ~Has(p, "resourceType")
    \/ MethodIs("install_helm_chart") /\ \E k \in {"name", "chart", "namespace"} : ~Has(p, k)

(***************************************************************************)
(* Properties                                                              *)
(***************************************************************************)

\* C1: an error raised while a non-blank line is processed, by decoding or
\* by the handler, never ends the loop, and gives exactly one error
\* response for that line.
C1_PerLineFailureIsolation ==
    /\ pc # "crashed"
    /\ (pc \in {"await", "done"} /\ nonblank > 0 /\ exc # "none")
          => /\ Len(out) = nonblank
             /\ served[Len(out)] = nonblank
             /\ IsError(Last)

\* C2: blank lines give no response, N non-blank lines give exactly N
\* responses, the k-th answering the k-th non-blank line, and every
\* subprocess of a line has exited before its response is written and
\* before the next line is read.
C2_OneResponsePerNonBlankLine ==
    /\ pc \in {"await", "done", "crashed"} => Len(out) = nonblank
    /\ \A k \in 1..Len(served) : served[k] = k
    /\ pc \in {"await", "loads", "handle", "done"} =>
          \A i \in 1..Len(calls) : calls[i].rc # Running

\* C3: with a values mapping, <name>-values.yaml holds json.dumps(values)
\* while the install runs, and once the handler has created the file no
\* such file remains when it returns or raises.
C3_ValuesFileScoped ==
    /\ pc = "helm_install_values" =>
          LET p == Params(request.obj) IN
          /\ Has(files, p.name \o "-values.yaml")
          /\ files[p.name \o "-values.yaml"] = JsonDumps(p.values)
          /\ (p.values = << <<"a", 1>> >> => files["rel-values.yaml"] = "{\"a\": 1}")
    /\ pc = "helm_install" => ~Truthy(Params(request.obj), "values")
    /\ (pc \in {"await", "done"} /\ handler = "install_helm_chart")
          => \A f \in created : ~Has(files, f)

\* C4: a kubectl_apply whose subprocess exited non-zero is answered with an
\* error response, never with a content envelope.
C4_ApplyFailureIsError ==
    (Answered /\ handler = "kubectl_apply" /\ calls # <<>> /\ calls[Len(calls)].rc # 0)
        => IsError(Last)

\* C5: a request that fails validation (kubectl_apply with neither manifest
\* nor filename, kubectl_get without resourceType, install_helm_chart
\* without name, chart or namespace) is answered with an error without any
\* subprocess having been spawned and without any file having been created.
C5_ValidationBeforeInvocation ==
    (Started /\ InvalidParams)
        => /\ Answered
           /\ IsError(Last)
           /\ exc \in {"KeyError", "ValueError"}
           /\ calls = <<>>
           /\ created = {}

\* C6: a method outside the routing table is answered with exactly
\* {"error": "Unknown method: <method>"} and spawns nothing; a method of the
\* table runs its handler and only its handler.
C6_Routing ==
    Started =>
        IF Has(request.obj, "method") /\ request.obj.method \in RoutedMethods
            THEN /\ handler = request.obj.method
                 /\ \A i \in 1..Len(calls) :
                      CASE handler = "kubectl_get" -> SubSeq(calls[i].cmd, 1, 2) = <<"kubectl", "get">>
                        [] handler = "kubectl_apply" -> SubSeq(calls[i].cmd, 1, 2) = <<"kubectl", "apply">>
                        [] handler = "install_helm_chart" -> calls[i].cmd[1] = "helm"
                        [] handler = "cleanup" -> FALSE
            ELSE /\ Answered
                 /\ handler = "none"
                 /\ calls = <<>>
                 /\ created = {}
                 /\ Last = [error |-> "Unknown method: " \o
                               (IF Has(request.obj, "method") THEN request.obj.method ELSE "None")]

\* C7: kubectl_get invokes kubectl once with
\* get <resourceType> [<name>] [-n <namespace>] -o <output>, namespace
\* defaulting to "default" and output to "json"; for pods alone the list is
\* get pods -n default -o json; for nodes the list has no -n.
C7_GetArguments ==
    (Started /\ handler = "kubectl_get" /\ calls # <<>>) =>
        LET p      == Params(request.obj)
            a      == Tail(calls[1].cmd)
            n      == Len(a)
            hasName == Has(p, "name") /\ p.name # ""
            ns     == IF Has(p, "namespace") THEN p.namespace ELSE "default"
            hasNs  == ns # "" /\ p.resourceType # "nodes"
        IN  /\ Len(calls) = 1
            /\ calls[1].cmd[1] = "kubectl"
            /\ n = 4 + (IF hasName THEN 1 ELSE 0) + (IF hasNs THEN 2 ELSE 0)
            /\ a[1] = "get"
            /\ a[2] = p.resourceType
            /\ hasName => a[3] = p.name
            /\ hasNs => a[n - 3] = "-n" /\ a[n - 2] = ns
            /\ a[n - 1] = "-o"
            /\ a[n] = (IF Has(p, "output") THEN p.output ELSE "json")
            /\ p = [resourceType |-> "pods"] => a = <<"get", "pods", "-n", "default", "-o", "json">>
            /\ p.resourceType = "nodes" => ~Contains(a, "-n")

\* the characters of chart before its first "/" (all of chart if it has none)
IsFirstSegment(x, chart) ==
    /\ Len(x) <= Len(chart)
    /\ x = SubSeq(chart, 1, Len(x))
    /\ ~Contains(x, "/")
    /\ Len(x) < Len(chart) => chart[Len(x) + 1] = "/"

\* C8: with repo, helm runs repo add <repo_name> <repo>, then repo update,
\* then install, each only after the previous one succeeded; a failed
\* preliminary call fails the handler with no install and no values file.
\* Without repo, install is the only helm invocation.
C8_RepoBeforeInstall ==
    (Started /\ handler = "install_helm_chart" /\ ~InvalidParams) =>
        LET p == Params(request.obj)
            n == Len(calls)
        IN  IF Has(p, "repo") /\ p.repo # ""
              THEN /\ n <= 3
                   /\ n >= 1
                   /\ SubSeq(calls[1].cmd, 1, 3) = <<"helm", "repo", "add">>
                   /\ Len(calls[1].cmd) = 5
                   /\ \E k \in 0..Len(p.chart) :
                        /\ IsFirstSegment(SubSeq(p.chart, 1, k), p.chart)
                        /\ calls[1].cmd[4] = Str(SubSeq(p.chart, 1, k))
                   /\ calls[1].cmd[5] = p.repo
                   /\ n >= 2 => /\ calls[1].rc = 0
                                /\ calls[2].cmd = <<"helm", "repo", "update">>
                   /\ n >= 3 => /\ calls[2].rc = 0
                                /\ SubSeq(calls[3].cmd, 1, 2) = <<"helm", "install">>
                   /\ created # {} => n >= 2 /\ calls[1].rc = 0 /\ calls[2].rc = 0
                   /\ pc = "write_values" => n = 2 /\ calls[2].rc = 0
                   /\ (n <= 2 /\ calls[n].rc \notin {0, Running})
                        => Answered /\ IsError(Last) /\ created = {}
              ELSE /\ n <= 1
                   /\ n = 1 => SubSeq(calls[1].cmd, 1, 2) = <<"helm", "install">>

\* C9: kubectl_apply with a manifest invokes kubectl once with apply -f -
\* and the manifest on standard input, the filename not being passed; with
\* a filename only it invokes kubectl once with apply -f <filename> and no
\* standard input.
C9_ApplyInvocation ==
    (Started /\ handler = "kubectl_apply" /\ ~InvalidParams) =>
        LET p == Params(request.obj) IN
        /\ Len(calls) = 1
        /\ IF Has(p, "manifest") /\ p.manifest # ""
             THEN /\ calls[1].cmd = <<"kubectl", "apply", "-f", "-">>
                  /\ calls[1].input = <<p.manifest>>
                  /\ Has(p, "filename") => ~Contains(calls[1].cmd, p.filename)
             ELSE /\ calls[1].cmd = <<"kubectl", "apply", "-f", p.filename>>
                  /\ calls[1].input = <<>>

\* the two response shapes
ContentShape(r) ==
    /\ DOMAIN r = {"content"}
    /\ Len(r.content) = 1
    /\ DOMAIN r.content[1] = {"type", "text"}
    /\ r.content[1].type = "text"
    /\ r.content[1].text \in STRING

ErrorShape(r) == DOMAIN r = {"error"} /\ r.error \in STRING

\* C10: every response is a content envelope or an error object, never
\* both; a content envelope is written only after the handler returned
\* normally and its text is the stdout of the handler's last subprocess
\* (for cleanup the JSON text of {"success": true}).
C10_ResponseEnvelope ==
    /\ \A i \in 1..Len(out) : ContentShape(out[i]) \/ ErrorShape(out[i])
    /\ Answered =>
          /\ IsContent(Last) <=> exc = "none"
          /\ IsContent(Last) =>
                IF request.type = "dict" /\ MethodIs("cleanup")
                    THEN calls = <<>> /\ Last.content[1].text = "{\"success\": true}"
                    ELSE /\ calls # <<>>
                         /\ calls[Len(calls)].rc # Running
                         /\ Last.content[1].text = calls[Len(calls)].stdout

(***************************************************************************)
(* Reachable cases                                                         *)
(***************************************************************************)

\* install_helm_chart with a repo but no namespace was refused before helm ran
C5_Witness ==
    /\ Answered
    /\ Started
    /\ MethodIs("install_helm_chart")
    /\ Truthy(Params(request.obj), "repo")
    /\ Has(Params(request.obj), "name")
    /\ Has(Params(request.obj), "chart")
    /\ ~Has(Params(request.obj), "namespace")
    /\ Last = [error |-> "'namespace'"]
    /\ calls = <<>>

\* a method that differs from a routed one only in case was refused
C6_Witness ==
    /\ Answered
    /\ Started
    /\ MethodIs("Kubectl_Get")
    /\ Has(request.obj, "params")
    /\ Last = [error |-> "Unknown method: Kubectl_Get"]

\* kubectl_get for nodes with a name and a namespace supplied has spawned kubectl
C7_Witness ==
    /\ Started
    /\ handler = "kubectl_get"
    /\ Blocked
    /\ Params(request.obj) = [resourceType |-> "nodes", name |-> "web", namespace |-> "prod", output |-> "yaml"]
    /\ calls[1].cmd = <<"kubectl", "get", "nodes", "web", "-o", "yaml">>

\* a chart with two separators was installed from a repo after both preliminary calls
C8_Witness ==
    /\ Answered
    /\ handler = "install_helm_chart"
    /\ Len(calls) = 3
    /\ Params(request.obj).chart = <<"a", "/", "b", "/", "c">>
    /\ calls[1].cmd = <<"helm", "repo", "add", "a", "https://example.com">>
    /\ calls[2].cmd = <<"helm", "repo", "update">>
    /\ calls[3].cmd[2] = "install"
    /\ IsContent(Last)

\* kubectl_apply with both manifest and filename has spawned kubectl on stdin
C9_Witness ==
    /\ Started
    /\ handler = "kubectl_apply"
    /\ Blocked
    /\ Params(request.obj) = [manifest |-> "kind: Pod", filename |-> "pod.yaml"]
    /\ calls[1].input = <<"kind: Pod">>

\* an error response followed by a content response carrying a subprocess's stdout
C10_Witness ==
    /\ Answered
    /\ Len(out) = 2
    /\ IsError(out[1])
    /\ IsContent(out[2])
    /\ handler = "kubectl_get"
    /\ calls[1].stdout = "ok\n"
    /\ out[2].content[1].text = "ok\n"

====
